---- MODULE Spec2Model ----
(***************************************************************************)
(* Model of the 2D-photo-to-3D-mesh page (src/unnamed/part_000): the       *)
(* inference model's loading, the generate and adjust handlers that build  *)
(* and replace the displayed surface, and the GLB export.                  *)
(*                                                                         *)
(* The page runs on one event loop.  A handler runs without interruption   *)
(* up to an await whose promise is settled by a later task; one action of  *)
(* this module is one such uninterrupted stretch.  `await estimateDepth`   *)
(* is no such point: estimateDepth has no await of its own, so its promise *)
(* is settled when it returns and the continuation runs as a microtask of  *)
(* the same task.  The points where other handlers can run are             *)
(*   - await depthMapTensor.array()       (createMeshFromDepthMap),        *)
(*   - await new Promise(exporter.parse)  (downloadGLB),                   *)
(*   - the 3000 ms timer of downloadGLB's cleanup,                         *)
(*   - the awaits of loadModel.                                            *)
(*                                                                         *)
(* Objects of the three.js heap are numbered in creation order:            *)
(* geometries, materials, textures and meshes (objects) each have their    *)
(* own heap, a sequence indexed by the object's number; 0 is null.         *)
(*                                                                         *)
(* Heights are kept exactly, as integers in units of 1/ZUnit: a depth      *)
(* value is dn/DepthDen and the sliders are integers.  x and y of a        *)
(* PlaneGeometry are symmetric about 0 and no code changes them, so a      *)
(* vertex is represented by its z.                                         *)
(***************************************************************************)
EXTENDS Integers, Sequences, FiniteSets, TLC

\* ---------------------------------------------------------------- bounds
\* conversions (generate or adjust handlers) started in one run
MaxConversions == 2
\* downloadGLB invocations in one run
MaxExports == 2
\* depth values are the fractions 0/DepthDen .. DepthDen/DepthDen
DepthDen == 2

\* ------------------------------------------------------------- constants
\* `let currentMesh = null`: the null reference
NoObject == 0

\* checks for the tflite library that waitForTFLite makes before giving up
maxAttempts == 50
\* const maxRetries = 3
maxRetries == 3

\* The DOM inputs createMeshFromDepthMap reads ('depth-scale', 'base-height',
\* 'use-normal-map', 'auto-center') hold whatever the user set last; the sliders
\* are in percent.  These are the combinations they hold when a handler reads
\* them: both check boxes off, and both on.
Settings ==
    { [ depthScale |-> 100, baseHeight |-> 0, useNormalMap |-> b, autoCenter |-> b ]
        : b \in BOOLEAN }

\* The depth fields the inference step returns.  estimateDepth normalises
\* its output by (x - min)/(max - min), so a field has a 0 and a 1.
DepthFields ==
    { << <<0, DepthDen>>, <<DepthDen, 0>> >> }

\* heights are integers in units of 1/ZUnit
ZUnit == 10 * DepthDen

VARIABLES
    tfliteModel,       \* "null" | "model"
    MODEL_URL,         \* "default" | "fallback"
    loadModelPc,       \* [pc, attempt]: where the one loadModel invocation stands
    imagePreview,      \* "complete" | "loading": the <img> the handlers read
    readers,           \* FileReaders started by generate clicks, not yet loaded
    currentMesh,       \* object number or NoObject
    scene,             \* set of mesh objects in the displayed scene
    objects,           \* heap of THREE.Mesh:  [geometry, material, position, rotation]
    geometries,        \* heap of geometries:  [hasPosition, position, index, disposed, nan]
    materials,         \* heap of materials:   [map, normalMap, disposed]
    textures,          \* heap of textures:    [disposed]
    tensors,           \* heap of depth tensors: [shape, data, disposed]
    conversions,       \* log of generate/adjust handler runs: [kind, pc, tensor]
    exports,           \* log of downloadGLB runs
    downloadBtn,       \* [disabled]
    loadingIndicator,  \* "none" | "block": style.display
    moduleState,       \* [pc, revision]: the evaluation of the module's top level
    waitForTFLitePc,   \* [pc, attempts]: the polling for the tflite library
    partsRun,          \* the loadModelParts call under way or last finished
    modelCache         \* the entries of the Cache API store, by key

vars == << tfliteModel, MODEL_URL, loadModelPc, imagePreview, readers,
           currentMesh, scene, objects, geometries, materials, textures, tensors,
           conversions, exports, downloadBtn, loadingIndicator,
           moduleState, waitForTFLitePc, partsRun, modelCache >>

\* the variables of the page's start: module evaluation, polling, model parts
startupVars == << moduleState, waitForTFLitePc, partsRun, modelCache >>

\* no entry under a key of the Cache API store
NoEntry == [present |-> FALSE, bytes |-> << >>]

\* The page once its module has been evaluated and DOMContentLoaded has run its
\* listener, with the model parts out of the picture: where the handlers'
\* specifications start.  pollPc tells whether loadModel has been called.
StartupQuiet(pollPc) ==
    /\ moduleState = [pc |-> "ready", revision |-> "part_000"]
    /\ waitForTFLitePc = [pc |-> pollPc, attempts |-> 0]
    /\ partsRun = [pc |-> "none"]
    /\ modelCache = [model_part1 |-> NoEntry, model_part2 |-> NoEntry]

\* the variables of the handlers
pageVars == << imagePreview, readers, currentMesh, scene, objects, geometries,
               materials, textures, tensors, conversions, exports, downloadBtn >>

\* length in bytes of each of the two model parts on the server
MaxPartLen == 2

\* ---------------------------------------------------------------- helpers
Range(s) == { s[i] : i \in DOMAIN s }

SetMin(S) == CHOOSE m \in S : \A n \in S : m <= n
SetMax(S) == CHOOSE m \in S : \A n \in S : n <= m

\* geometry.dispose(), material.dispose(): the object's dispose count goes up
Dispose(heap, id) ==
    [heap EXCEPT ![id] = [@ EXCEPT !.disposed = @ + 1]]

\* ------------------------------------------------ createMeshFromDepthMap
\* new THREE.PlaneGeometry(width, height, width - 1, height - 1):
\* (gridX + 1) * (gridY + 1) vertices and gridX * gridY * 6 indices
PlaneVertexCount(width, height) == width * height
\* PlaneGeometry given width and height segments instead of width-1, height-1
PlaneIndexCount_FullSegments(width, height) ==
    width * height * 6

PlaneIndexCount(width, height) == (width - 1) * (height - 1) * 6

\* z = (1.0 - depth) * extrusionScale + (baseHeight * 20), in units of 1/ZUnit,
\* with depth = dn / DepthDen, depthScale = value / 100, baseHeight = value / 100
\* the z formula without the inversion (1.0 - depth)
HeightOf_NotInverted(dn, s) ==
    dn * s.depthScale * 10 + 2 * DepthDen * s.baseHeight

HeightOf(dn, s) ==
    (DepthDen - dn) * s.depthScale * 10 + 2 * DepthDen * s.baseHeight

\* the loop reading depthMap[i % height][floor(i / height)]
DisplacedPositions_ColumnMajor(tensor, s) ==
    LET height == tensor.shape[1]
        width  == tensor.shape[2]
    IN  [ k \in 1..PlaneVertexCount(width, height) |->
            HeightOf(tensor.data[((k - 1) % height) + 1][((k - 1) \div height) + 1], s) ]

\* the loop over positionAttribute: vertex i (from 0) reads
\* depthMap[floor(i / width)][i % width]
DisplacedPositions(tensor, s) ==
    LET height == tensor.shape[1]
        width  == tensor.shape[2]
    IN  [ k \in 1..PlaneVertexCount(width, height) |->
            HeightOf(tensor.data[((k - 1) \div width) + 1][((k - 1) % width) + 1], s) ]

\* geometry.center(): translate by minus the centre of the bounding box
BoxCenter(position) ==
    IF position = << >> THEN 0
    ELSE (SetMin(Range(position)) + SetMax(Range(position))) \div 2

\* translating to the minimum of the box instead of its centre
Center_ToMin(position) ==
    [ k \in DOMAIN position |-> position[k] - SetMin(Range(position)) ]

Center(position) ==
    [ k \in DOMAIN position |-> position[k] - BoxCenter(position) ]

\* PlaneGeometry(width, height, 0, n) or (.., n, 0): the segment size is
\* width / 0 = Infinity and the coordinate 0 * Infinity - width / 2 is NaN, so
\* every vertex has a NaN x or y
PlaneHasNaN(width, height) ==
    width < 2 \/ height < 2

\* geometry.center() on a geometry: nan tells which coordinates are NaN
\* ("none", "xy" or "xyz").  With a NaN coordinate the translation
\* (applyMatrix4 on every vertex) turns the z of every vertex into NaN too;
\* position then keeps the last finite heights, which no longer mean anything.
GeometryCenter(geometry) ==
    IF geometry.nan = "none" THEN [ geometry EXCEPT !.position = Center(@) ]
    ELSE [ geometry EXCEPT !.nan = "xyz" ]

\* createMeshFromDepthMap giving the new mesh the geometry made before it
createMeshFromDepthMap_ReusedGeometry(tensor, s, gid, mid, tid) ==
    LET plane == [ hasPosition |-> TRUE,
                   position |-> DisplacedPositions(tensor, s),
                   index |-> PlaneIndexCount(tensor.shape[2], tensor.shape[1]),
                   disposed |-> 0,
                   nan |-> IF PlaneHasNaN(tensor.shape[2], tensor.shape[1])
                           THEN "xy" ELSE "none" ]
    IN
    [ geometry |-> IF s.autoCenter THEN GeometryCenter(plane) ELSE plane,
      texture  |-> [ disposed |-> 0 ],
      material |-> [ map |-> tid,
                     normalMap |-> IF s.useNormalMap THEN tid ELSE NoObject,
                     disposed |-> 0 ],
      mesh     |-> [ geometry |-> IF gid > 1 THEN gid - 1 ELSE gid, material |-> mid,
                     position |-> <<0, 0, 0>>, rotation |-> "-PI/2" ] ]

\* The objects createMeshFromDepthMap constructs after its await; tid, mid, gid
\* are the numbers the new texture, material and geometry get.
createMeshFromDepthMap(tensor, s, gid, mid, tid) ==
    LET plane == [ hasPosition |-> TRUE,
                   position |-> DisplacedPositions(tensor, s),
                   index |-> PlaneIndexCount(tensor.shape[2], tensor.shape[1]),
                   disposed |-> 0,
                   nan |-> IF PlaneHasNaN(tensor.shape[2], tensor.shape[1])
                           THEN "xy" ELSE "none" ]
    IN  [ geometry |-> IF s.autoCenter THEN GeometryCenter(plane) ELSE plane,
          texture  |-> [ disposed |-> 0 ],
          material |-> [ map |-> tid,
                         normalMap |-> IF s.useNormalMap THEN tid ELSE NoObject,
                         disposed |-> 0 ],
          mesh     |-> [ geometry |-> gid, material |-> mid,
                         position |-> <<0, 0, 0>>, rotation |-> "-PI/2" ] ]

\* ----------------------------------------------------------- estimateDepth
\* estimateDepth without its `if (!tfliteModel)` check
estimateDepth_NoCheck(model, field) ==
    [ null |-> FALSE,
      tensor |-> [ shape |-> <<Len(field), Len(field[1])>>, data |-> field,
                   disposed |-> 0 ] ]

\* estimateDepth(imgElement): null while no model is loaded, else the
\* normalised output tensor of the model (field is the inference result)
\* (null |-> TRUE stands for the null it returns then).
estimateDepth(model, field) ==
    IF model = "null" THEN [ null |-> TRUE ]
    ELSE [ null |-> FALSE,
           tensor |-> [ shape |-> <<Len(field), Len(field[1])>>, data |-> field,
                        disposed |-> 0 ] ]

\* ---------------------------------------------------------------- Init
Init ==
    /\ tfliteModel = "null"
    /\ MODEL_URL = "default"
    /\ loadModelPc = [pc |-> "idle", attempt |-> 0]
    /\ imagePreview = "complete"
    /\ readers = 0
    /\ currentMesh = NoObject
    /\ scene = {}
    /\ objects = << >>
    /\ geometries = << >>
    /\ materials = << >>
    /\ textures = << >>
    /\ tensors = << >>
    /\ conversions = << >>
    /\ exports = << >>
    /\ downloadBtn = [disabled |-> FALSE]
    /\ loadingIndicator = "none"
    /\ StartupQuiet("polling")

\* ------------------------------------------------------------- loadModel
\* loadModel is started once, by waitForTFLite when the tflite library is there.
loadModel_Start ==
    /\ loadModelPc.pc = "idle"
    /\ loadModelPc' = [pc |-> "parts", attempt |-> 0]
    /\ loadingIndicator' = "block"
    /\ UNCHANGED << tfliteModel, MODEL_URL, imagePreview, readers, currentMesh,
                    scene, objects, geometries, materials, textures, tensors,
                    conversions, exports, downloadBtn >>

\* await loadModelParts() settles: the blob URL of the parts, or the fallback URL
\* when it throws; then the first attempt calls tflite.loadTFLiteModel and awaits.
loadModel_PartsSettled(partsLoaded) ==
    /\ loadModelPc.pc = "parts"
    /\ MODEL_URL' = IF partsLoaded THEN "default" ELSE "fallback"
    /\ loadModelPc' = [pc |-> "race", attempt |-> 1]
    /\ UNCHANGED << tfliteModel, imagePreview, readers, currentMesh, scene,
                    objects, geometries, materials, textures, tensors, conversions,
                    exports, downloadBtn, loadingIndicator >>

loadModel_Parts ==
    \E partsLoaded \in BOOLEAN : loadModel_PartsSettled(partsLoaded)

\* the retry loop with `attempt <= maxRetries + 1`
loadModel_Race_OneMore ==
    /\ loadModelPc.pc = "race"
    /\ \E outcome \in {"model", "falsy", "error"} :
         LET attempt == loadModelPc.attempt IN
         /\ tfliteModel' = IF outcome = "model" THEN "model"
                           ELSE IF outcome = "falsy" THEN "null" ELSE tfliteModel
         /\ loadModelPc' =
              IF outcome = "model" THEN [pc |-> "loaded", attempt |-> 0]
              ELSE IF attempt >= maxRetries + 1 THEN [pc |-> "failed", attempt |-> 0]
              ELSE IF outcome = "falsy" THEN [pc |-> "race", attempt |-> attempt + 1]
              ELSE [pc |-> "backoff", attempt |-> attempt]
    /\ UNCHANGED << MODEL_URL, imagePreview, readers, currentMesh, scene,
                    objects, geometries, materials, textures, tensors, conversions,
                    exports, downloadBtn, loadingIndicator >>

\* await Promise.race([modelLoadPromise, timeoutPromise]) settles with a model, with
\* a falsy value, or rejects (load error or the 30 s timeout).
loadModel_Race ==
    /\ loadModelPc.pc = "race"
    /\ \E outcome \in {"model", "falsy", "error"} :
         LET attempt == loadModelPc.attempt IN
         /\ tfliteModel' = IF outcome = "model" THEN "model"
                           ELSE IF outcome = "falsy" THEN "null" ELSE tfliteModel
         /\ loadModelPc' =
              IF outcome = "model" THEN [pc |-> "loaded", attempt |-> 0]
              ELSE IF attempt >= maxRetries THEN [pc |-> "failed", attempt |-> 0]
              ELSE IF outcome = "falsy" THEN [pc |-> "race", attempt |-> attempt + 1]
              ELSE [pc |-> "backoff", attempt |-> attempt]
    /\ UNCHANGED << MODEL_URL, imagePreview, readers, currentMesh, scene,
                    objects, geometries, materials, textures, tensors, conversions,
                    exports, downloadBtn, loadingIndicator >>

\* the wait of 1000 * attempt ms between two attempts is over
loadModel_Backoff ==
    /\ loadModelPc.pc = "backoff"
    /\ loadModelPc' = [pc |-> "race", attempt |-> loadModelPc.attempt + 1]
    /\ UNCHANGED << tfliteModel, MODEL_URL, imagePreview, readers, currentMesh,
                    scene, objects, geometries, materials, textures, tensors,
                    conversions, exports, downloadBtn, loadingIndicator >>

\* ------------------------------------------------------------ conversions
\* handler runs counted against MaxConversions: the logged ones and the generate
\* clicks whose image has not loaded yet
Started ==
    Len(conversions) + readers + (IF imagePreview = "loading" THEN 1 ELSE 0)

\* scene.remove(currentMesh); currentMesh.geometry.dispose();
\* currentMesh.material.dispose()
ReleaseCurrent ==
    /\ scene' = scene \ {currentMesh}
    /\ geometries' = Dispose(geometries, objects[currentMesh].geometry)
    /\ materials' = Dispose(materials, objects[currentMesh].material)

\* The stretch both handlers share, from `await estimateDepth(imagePreview)` to the
\* await inside createMeshFromDepthMap.  estimateDepth returns null (not ready),
\* throws inside tf.tidy (predict fails), or returns a tensor; with a tensor the
\* current surface, if any, is removed and disposed and the handler waits for
\* depthMapTensor.array().
BeginConversion(kind) ==
    \E field \in DepthFields, predictThrows \in BOOLEAN :
      LET depth == estimateDepth(tfliteModel, field) IN
      IF depth.null
      THEN /\ conversions' = Append(conversions,
                                [kind |-> kind, pc |-> "notReady", tensor |-> NoObject])
           /\ UNCHANGED << scene, geometries, materials, tensors, loadingIndicator >>
      ELSE IF predictThrows
      THEN /\ conversions' = Append(conversions,
                                [kind |-> kind, pc |-> "depthError", tensor |-> NoObject])
           /\ loadingIndicator' = "block"
           /\ UNCHANGED << scene, geometries, materials, tensors >>
      ELSE /\ tensors' = Append(tensors, depth.tensor)
           /\ loadingIndicator' = "none"
           /\ conversions' = Append(conversions,
                                [kind |-> kind, pc |-> "array", tensor |-> Len(tensors) + 1])
           /\ IF currentMesh # NoObject
              THEN ReleaseCurrent
              ELSE UNCHANGED << scene, geometries, materials >>

\* generateBtn click: without a file an alert and nothing else; with one, a
\* FileReader starts reading it.
generateBtn_click ==
    /\ Started < MaxConversions
    /\ \E file \in BOOLEAN :
         readers' = IF file THEN readers + 1 ELSE readers
    /\ UNCHANGED << tfliteModel, MODEL_URL, loadModelPc, imagePreview,
                    currentMesh, scene, objects, geometries, materials, textures,
                    tensors, conversions, exports, downloadBtn, loadingIndicator >>

\* reader.onload: imagePreview.src is assigned, the image starts loading (a load
\* still under way is abandoned) and imagePreview.onload is set.
reader_onload ==
    /\ readers > 0
    /\ readers' = readers - 1
    /\ imagePreview' = "loading"
    /\ UNCHANGED << tfliteModel, MODEL_URL, loadModelPc, currentMesh, scene,
                    objects, geometries, materials, textures, tensors, conversions,
                    exports, downloadBtn, loadingIndicator >>

\* imagePreview.onload: the generate handler up to its second await
imagePreview_onload ==
    /\ imagePreview = "loading"
    /\ imagePreview' = "complete"
    /\ BeginConversion("generate")
    /\ UNCHANGED << tfliteModel, MODEL_URL, loadModelPc, readers, currentMesh,
                    objects, textures, exports, downloadBtn >>

\* updateMeshGeometry up to its second await; it returns at once without a
\* current surface or while the image is loading.
updateMeshGeometry ==
    IF currentMesh = NoObject \/ imagePreview # "complete"
    THEN UNCHANGED << scene, geometries, materials, tensors, conversions,
                      loadingIndicator >>
    ELSE /\ Started < MaxConversions
         /\ BeginConversion("update")

\* the listeners of the four settings (the browser has changed the input's value
\* already): show the value and, with a current surface, call updateMeshGeometry
SettingChanged ==
    /\ IF currentMesh # NoObject
       THEN updateMeshGeometry
       ELSE UNCHANGED << scene, geometries, materials, tensors, conversions,
                         loadingIndicator >>
    /\ UNCHANGED << tfliteModel, MODEL_URL, loadModelPc, imagePreview, readers,
                    currentMesh, objects, textures, exports, downloadBtn >>

depthScale_input == SettingChanged

baseHeight_input == SettingChanged

autoCenter_change == SettingChanged

useNormalMap_change == SettingChanged

\* The rest of a handler once depthMapTensor.array() has resolved:
\* createMeshFromDepthMap builds the surface from the settings as they are now,
\* the handler makes it currentMesh, adds it to the scene and disposes the tensor.
\* The log keeps the settings createMeshFromDepthMap read and the mesh it returned.
InstallMeshWith(i, s) ==
    LET t == conversions[i].tensor
        built == createMeshFromDepthMap(tensors[t], s, Len(geometries) + 1,
                                        Len(materials) + 1, Len(textures) + 1)
    IN  /\ geometries' = Append(geometries, built.geometry)
        /\ materials' = Append(materials, built.material)
        /\ textures' = Append(textures, built.texture)
        /\ objects' = Append(objects, built.mesh)
        /\ currentMesh' = Len(objects) + 1
        /\ scene' = scene \cup {Len(objects) + 1}
        /\ tensors' = Dispose(tensors, t)
        /\ conversions' = [conversions EXCEPT ![i] =
                              [ kind |-> @.kind, pc |-> "done", tensor |-> @.tensor,
                                settings |-> s, mesh |-> Len(objects) + 1 ]]

InstallMesh(i) ==
    \E s \in Settings : InstallMeshWith(i, s)

generate_resume(i) ==
    /\ conversions[i].kind = "generate"
    /\ conversions[i].pc = "array"
    /\ InstallMesh(i)
    /\ UNCHANGED << tfliteModel, MODEL_URL, loadModelPc, imagePreview, readers,
                    exports, downloadBtn, loadingIndicator >>

updateMeshGeometry_resume(i) ==
    /\ conversions[i].kind = "update"
    /\ conversions[i].pc = "array"
    /\ InstallMesh(i)
    /\ UNCHANGED << tfliteModel, MODEL_URL, loadModelPc, imagePreview, readers,
                    exports, downloadBtn, loadingIndicator >>

\* depthMapTensor.array() rejects (or anything after it in createMeshFromDepthMap
\* throws): the generate handler ends with an unhandled rejection,
\* updateMeshGeometry logs the error in its catch.  Neither does anything else.
createMesh_rejected(i) ==
    /\ conversions[i].pc = "array"
    /\ conversions' = [conversions EXCEPT ![i].pc = "meshError"]
    /\ UNCHANGED << tfliteModel, MODEL_URL, loadModelPc, imagePreview, readers,
                    currentMesh, scene, objects, geometries, materials, textures,
                    tensors, exports, downloadBtn, loadingIndicator >>

\* ------------------------------------------------------------- downloadGLB
\* validateModelForExport with the texture check moved to the front
validateModelForExport_TextureFirst(mesh) ==
    IF \/ mesh.material = NoObject
       \/ materials[mesh.material].map = NoObject THEN "MissingTexture"
    ELSE IF mesh.geometry = NoObject THEN "MissingGeometry"
    ELSE IF \/ ~geometries[mesh.geometry].hasPosition
            \/ Len(geometries[mesh.geometry].position) = 0 THEN "EmptyMesh"
    ELSE "ok"

\* validateModelForExport without its vertex check
validateModelForExport_NoVertexCheck(mesh) ==
    IF mesh.geometry = NoObject THEN "MissingGeometry"
    ELSE IF \/ mesh.material = NoObject
            \/ materials[mesh.material].map = NoObject THEN "MissingTexture"
    ELSE "ok"

\* validateModelForExport(mesh): the error it throws, or "ok".  The errors, in
\* the order of the checks:
\*   "MissingGeometry"  'El modelo no tiene geometria valida'
\*   "EmptyMesh"        'El modelo no tiene vertices validos'
\*   "MissingTexture"   'El modelo no tiene textura valida'
validateModelForExport(mesh) ==
    IF mesh.geometry = NoObject THEN "MissingGeometry"
    ELSE IF \/ ~geometries[mesh.geometry].hasPosition
            \/ Len(geometries[mesh.geometry].position) = 0 THEN "EmptyMesh"
    ELSE IF \/ mesh.material = NoObject
            \/ materials[mesh.material].map = NoObject THEN "MissingTexture"
    ELSE "ok"

\* mesh.clone(): a new Mesh that copies the placement and refers to the SAME
\* geometry and material (Mesh.copy assigns source.geometry and source.material)
MeshClone(mesh) ==
    [ geometry |-> mesh.geometry, material |-> mesh.material,
      position |-> mesh.position, rotation |-> mesh.rotation ]

\* downloadGLB without `downloadBtn.disabled = false` in its finally block
RestoreTrigger_Forgotten == downloadBtn

\* downloadGLB without `downloadBtn.disabled = true`
DisableTrigger_Forgotten == [disabled |-> FALSE]

\* downloadBtn.disabled = true, before the clone is made
DisableTrigger == [disabled |-> TRUE]
\* the finally block: downloadBtn.disabled = false
RestoreTrigger == [disabled |-> FALSE]

\* what the live surface looks like when downloadGLB is entered
LiveSnapshot ==
    IF currentMesh = NoObject \/ objects[currentMesh].geometry = NoObject
    THEN [ mesh |-> currentMesh, inScene |-> currentMesh \in scene, position |-> << >> ]
    ELSE [ mesh |-> currentMesh, inScene |-> currentMesh \in scene,
           position |-> geometries[objects[currentMesh].geometry].position ]

\* a downloadGLB run that ended in its catch before anything was built
Rejected(error) ==
    [ pc |-> "rejected", error |-> error, source |-> currentMesh, clone |-> NoObject,
      exportScene |-> {}, parsed |-> FALSE, blob |-> FALSE, released |-> FALSE,
      metadata |-> [vertices |-> 0, faces |-> 0], snapshot |-> LiveSnapshot ]

\* a property of null is read after validation let the surface through
\* (TypeError): which of geometry, position attribute, material, map is missing
Incomplete(mesh) ==
    \/ mesh.geometry = NoObject
    \/ ~geometries[mesh.geometry].hasPosition
    \/ mesh.material = NoObject
    \/ materials[mesh.material].map = NoObject

\* optimizeModelForExport without its geometry.center()
optimizeModelForExport_NoCenter(mesh) ==
    [ objects |-> Append(objects, [ MeshClone(mesh) EXCEPT !.position = <<0, 0, 0>>,
                                                           !.rotation = "-PI/2" ]),
      geometries |-> geometries ]

\* optimizeModelForExport(mesh) followed by the placement of the clone:
\* the heaps after mesh.clone() and optimizedMesh.geometry.center().
\* computeVertexNormals, computeBoundingBox and computeBoundingSphere derive
\* their results from the positions and change no position.
optimizeModelForExport(mesh) ==
    [ objects |-> Append(objects, [ MeshClone(mesh) EXCEPT !.position = <<0, 0, 0>>,
                                                           !.rotation = "-PI/2" ]),
      geometries |-> IF mesh.geometry = NoObject THEN geometries
                     ELSE [ geometries EXCEPT ![mesh.geometry] = GeometryCenter(@) ] ]

\* faces given as the index count, not divided by 3
Metadata_IndexCount(geometry) ==
    [ vertices |-> Len(geometry.position), faces |-> geometry.index ]

\* the metadata block of the export options
Metadata(geometry) ==
    [ vertices |-> Len(geometry.position),
      faces |-> IF geometry.index # 0 THEN geometry.index \div 3 ELSE 0 ]

\* downloadBtn click: downloadGLB up to `await new Promise(...)`.  A disabled
\* button dispatches no click.
downloadGLB ==
    /\ ~downloadBtn.disabled
    /\ Len(exports) < MaxExports
    /\ IF currentMesh = NoObject
       THEN /\ exports' = Append(exports, Rejected("NoModel"))
            /\ loadingIndicator' = "none"
            /\ downloadBtn' = RestoreTrigger
            /\ UNCHANGED << objects, geometries >>
       ELSE LET mesh == objects[currentMesh]
                valid == validateModelForExport(mesh)
                optimized == optimizeModelForExport(mesh)
                clone == Len(objects) + 1
            IN  IF valid # "ok"
                THEN /\ exports' = Append(exports, Rejected(valid))
                     /\ loadingIndicator' = "none"
                     /\ downloadBtn' = RestoreTrigger
                     /\ UNCHANGED << objects, geometries >>
                ELSE IF Incomplete(mesh)
                THEN /\ objects' = optimized.objects
                     /\ geometries' = optimized.geometries
                     /\ exports' = Append(exports,
                          [ Rejected("TypeError") EXCEPT !.pc = "failed", !.clone = clone ])
                     /\ loadingIndicator' = "none"
                     /\ downloadBtn' = RestoreTrigger
                ELSE /\ objects' = optimized.objects
                     /\ geometries' = optimized.geometries
                     /\ exports' = Append(exports,
                          [ pc |-> "awaiting", error |-> "", source |-> currentMesh,
                            clone |-> clone, exportScene |-> {clone}, parsed |-> TRUE,
                            blob |-> FALSE, released |-> FALSE,
                            metadata |-> Metadata(optimized.geometries[mesh.geometry]),
                            snapshot |-> LiveSnapshot ])
                     /\ loadingIndicator' = "block"
                     /\ downloadBtn' = DisableTrigger
    /\ UNCHANGED << tfliteModel, MODEL_URL, loadModelPc, imagePreview, readers,
                    currentMesh, scene, materials, textures, tensors, conversions >>

\* the serializer calls back with the bytes: blob, link and click (the file is
\* downloaded), the cleanup is scheduled 3000 ms later, then the finally block
downloadGLB_resolved(e) ==
    /\ exports[e].pc = "awaiting"
    /\ exports' = [exports EXCEPT ![e].pc = "timer", ![e].blob = TRUE]
    /\ loadingIndicator' = "none"
    /\ downloadBtn' = RestoreTrigger
    /\ UNCHANGED << tfliteModel, MODEL_URL, loadModelPc, imagePreview, readers,
                    currentMesh, scene, objects, geometries, materials, textures,
                    tensors, conversions >>

\* the serializer's failure callback: the catch block alerts the message, then
\* the finally block
downloadGLB_rejected(e) ==
    /\ exports[e].pc = "awaiting"
    /\ exports' = [exports EXCEPT ![e].pc = "failed", ![e].error = "ExportSerialization"]
    /\ loadingIndicator' = "none"
    /\ downloadBtn' = RestoreTrigger
    /\ UNCHANGED << tfliteModel, MODEL_URL, loadModelPc, imagePreview, readers,
                    currentMesh, scene, objects, geometries, materials, textures,
                    tensors, conversions >>

\* the timer of the success path: exportScene.remove(meshForExport, ...),
\* meshForExport.geometry.dispose(), meshForExport.material.dispose()
downloadGLB_cleanup(e) ==
    /\ exports[e].pc = "timer"
    /\ exports' = [exports EXCEPT ![e].pc = "cleaned", ![e].exportScene = {},
                                  ![e].released = TRUE]
    /\ geometries' = Dispose(geometries, objects[exports[e].clone].geometry)
    /\ materials' = Dispose(materials, objects[exports[e].clone].material)
    /\ UNCHANGED << tfliteModel, MODEL_URL, loadModelPc, imagePreview, readers,
                    currentMesh, scene, objects, textures, tensors, conversions,
                    downloadBtn, loadingIndicator >>

\* ------------------------------------------------------------------ Next
Next ==
    \/ loadModel_Start /\ UNCHANGED startupVars
    \/ loadModel_Parts /\ UNCHANGED startupVars
    \/ loadModel_Race /\ UNCHANGED startupVars
    \/ loadModel_Backoff /\ UNCHANGED startupVars
    \/ generateBtn_click /\ UNCHANGED startupVars
    \/ reader_onload /\ UNCHANGED startupVars
    \/ imagePreview_onload /\ UNCHANGED startupVars
    \/ depthScale_input /\ UNCHANGED startupVars
    \/ baseHeight_input /\ UNCHANGED startupVars
    \/ autoCenter_change /\ UNCHANGED startupVars
    \/ useNormalMap_change /\ UNCHANGED startupVars
    \/ \E i \in DOMAIN conversions : generate_resume(i) /\ UNCHANGED startupVars
    \/ \E i \in DOMAIN conversions : updateMeshGeometry_resume(i) /\ UNCHANGED startupVars
    \/ \E i \in DOMAIN conversions : createMesh_rejected(i) /\ UNCHANGED startupVars
    \/ downloadGLB /\ UNCHANGED startupVars
    \/ \E e \in DOMAIN exports : downloadGLB_resolved(e) /\ UNCHANGED startupVars
    \/ \E e \in DOMAIN exports : downloadGLB_rejected(e) /\ UNCHANGED startupVars
    \/ \E e \in DOMAIN exports : downloadGLB_cleanup(e) /\ UNCHANGED startupVars

Spec == Init /\ [][Next]_vars

\* --------------------------------------------- export of an arbitrary surface
\* validateModelForExport and downloadGLB applied to every shape of surface:
\* with or without geometry, position attribute, vertices, index, material and
\* texture, and to no surface at all.
ValidatePositions ==
    { << >> } \cup
    { createMeshFromDepthMap(estimateDepth("model", field).tensor, s, 1, 1, 1).geometry.position
        : field \in DepthFields, s \in Settings }

InitValidate ==
    /\ tfliteModel = "model"
    /\ MODEL_URL = "default"
    /\ loadModelPc = [pc |-> "loaded", attempt |-> 0]
    /\ imagePreview = "complete"
    /\ readers = 0
    /\ currentMesh \in {NoObject, 1}
    /\ scene = {1}
    /\ \E g \in {NoObject, 1}, m \in {NoObject, 1} :
         objects = << [ geometry |-> g, material |-> m,
                        position |-> <<0, 0, 0>>, rotation |-> "-PI/2" ] >>
    /\ \E hasPosition \in BOOLEAN, position \in ValidatePositions, index \in {0, 6} :
         /\ ~hasPosition => position = << >>
         /\ geometries = << [ hasPosition |-> hasPosition, position |-> position,
                              index |-> index, disposed |-> 0, nan |-> "none" ] >>
    /\ \E map \in {NoObject, 1} :
         materials = << [ map |-> map, normalMap |-> NoObject, disposed |-> 0 ] >>
    /\ textures = << [ disposed |-> 0 ] >>
    /\ tensors = << >>
    /\ conversions = << >>
    /\ exports = << >>
    /\ downloadBtn = [disabled |-> FALSE]
    /\ loadingIndicator = "none"
    /\ StartupQuiet("started")

NextValidate ==
    \/ downloadGLB /\ UNCHANGED startupVars
    \/ \E e \in DOMAIN exports : downloadGLB_resolved(e) /\ UNCHANGED startupVars
    \/ \E e \in DOMAIN exports : downloadGLB_rejected(e) /\ UNCHANGED startupVars
    \/ \E e \in DOMAIN exports : downloadGLB_cleanup(e) /\ UNCHANGED startupVars

SpecValidate == InitValidate /\ [][NextValidate]_vars

\* ------------------------------------- createMeshFromDepthMap on any input
\* createMeshFromDepthMap applied to depth fields of every small shape that
\* estimateDepth can return and to a range of settings, and the export of the
\* surface it returns.  (tf.squeeze leaves no dimension of size 1 in the
\* tensor estimateDepth returns.)
MeshFields ==
    { [ y \in 1..2 |-> [ x \in 1..2 |-> d ] ] : d \in 0..DepthDen } \cup
    { [ y \in 1..2 |-> [ x \in 1..3 |-> d ] ] : d \in {0, DepthDen} } \cup
    { << <<0, DepthDen>>, <<DepthDen, 0>> >>,
      << <<0, 1, DepthDen>>, <<DepthDen, 0, 1>> >>,
      << <<0, 1>>, <<1, DepthDen>>, <<DepthDen, 0>> >> }

MeshSettings ==
    [ depthScale : {50, 100, 200}, baseHeight : {0, 50},
      useNormalMap : BOOLEAN, autoCenter : BOOLEAN ]

\* a generate handler waiting in createMeshFromDepthMap for depthMapTensor.array()
InitMesh ==
    /\ tfliteModel = "model"
    /\ MODEL_URL = "default"
    /\ loadModelPc = [pc |-> "loaded", attempt |-> 0]
    /\ imagePreview = "complete"
    /\ readers = 0
    /\ currentMesh = NoObject
    /\ scene = {}
    /\ objects = << >>
    /\ geometries = << >>
    /\ materials = << >>
    /\ textures = << >>
    /\ \E field \in MeshFields :
         tensors = << estimateDepth("model", field).tensor >>
    /\ conversions = << [kind |-> "generate", pc |-> "array", tensor |-> 1] >>
    /\ exports = << >>
    /\ downloadBtn = [disabled |-> FALSE]
    /\ loadingIndicator = "none"
    /\ StartupQuiet("started")

\* depthMapTensor.array() resolves and the handler goes on, whatever the settings
createMesh_resolved ==
    /\ conversions[1].pc = "array"
    /\ \E s \in MeshSettings : InstallMeshWith(1, s)
    /\ UNCHANGED << tfliteModel, MODEL_URL, loadModelPc, imagePreview, readers,
                    exports, downloadBtn, loadingIndicator >>

NextMesh ==
    \/ createMesh_resolved /\ UNCHANGED startupVars
    \/ createMesh_rejected(1) /\ UNCHANGED startupVars
    \/ downloadGLB /\ UNCHANGED startupVars
    \/ \E e \in DOMAIN exports : downloadGLB_resolved(e) /\ UNCHANGED startupVars
    \/ \E e \in DOMAIN exports : downloadGLB_rejected(e) /\ UNCHANGED startupVars
    \/ \E e \in DOMAIN exports : downloadGLB_cleanup(e) /\ UNCHANGED startupVars

SpecMesh == InitMesh /\ [][NextMesh]_vars

\* ------------------------------- createMeshFromDepthMap on a degenerate field
\* createMeshFromDepthMap called with a tensor of shape [height, width] where
\* width or height is 1
DegenerateFields ==
    { [ y \in 1..h |-> [ x \in 1..w |-> data[(y - 1) * w + x] ] ] :
        h \in {1}, w \in {1}, data \in [1..1 -> 0..DepthDen] } \cup
    { [ y \in 1..h |-> [ x \in 1..w |-> data[(y - 1) * w + x] ] ] :
        h \in {1}, w \in {2}, data \in [1..2 -> 0..DepthDen] } \cup
    { [ y \in 1..h |-> [ x \in 1..w |-> data[(y - 1) * w + x] ] ] :
        h \in {2}, w \in {1}, data \in [1..2 -> 0..DepthDen] }

InitDegenerate ==
    /\ tfliteModel = "model"
    /\ MODEL_URL = "default"
    /\ loadModelPc = [pc |-> "loaded", attempt |-> 0]
    /\ imagePreview = "complete"
    /\ readers = 0
    /\ currentMesh = NoObject
    /\ scene = {}
    /\ objects = << >>
    /\ geometries = << >>
    /\ materials = << >>
    /\ textures = << >>
    /\ \E field \in DegenerateFields :
         tensors = << [ shape |-> <<Len(field), Len(field[1])>>, data |-> field,
                        disposed |-> 0 ] >>
    /\ conversions = << [kind |-> "generate", pc |-> "array", tensor |-> 1] >>
    /\ exports = << >>
    /\ downloadBtn = [disabled |-> FALSE]
    /\ loadingIndicator = "none"
    /\ StartupQuiet("started")

NextDegenerate ==
    \/ createMesh_resolved /\ UNCHANGED startupVars
    \/ createMesh_rejected(1) /\ UNCHANGED startupVars

SpecDegenerate == InitDegenerate /\ [][NextDegenerate]_vars

\* ------------------------------------------------------- the model's parts
\* What the server holds under assets/models/model_opt.tflite.partaa (p = 1)
\* and .partab (p = 2), and the body of a response that is not OK.
ModelPartBytes(p) == [ i \in 1..MaxPartLen |-> (p - 1) * MaxPartLen + i ]

ErrorPageBytes == << 0 >>

\* fetch resolves with an OK response, resolves with a response that is not
\* OK (404, 500), or rejects (no network)
FetchOutcomes == {"ok", "notOk", "error"}

ResponseBody(p, outcome) ==
    IF outcome = "ok" THEN ModelPartBytes(p) ELSE ErrorPageBytes

\* contentLength is parseInt(response.headers.get('Content-Length') || '0')
\* chunks are the values read so far, received the buffer the part returned
IdlePart ==
    [ pc |-> "idle", ok |-> TRUE, body |-> << >>, chunks |-> << >>,
      received |-> << >>, contentLength |-> 0 ]

\* receivedLength: the sum of value.length over the chunks read
RECURSIVE ReceivedLength(_)
ReceivedLength(chunks) ==
    IF chunks = << >> THEN 0 ELSE Len(Head(chunks)) + ReceivedLength(Tail(chunks))

\* chunksAll: each chunk set at the position where the one before it ended
RECURSIVE ChunksAll(_)
ChunksAll(chunks) ==
    IF chunks = << >> THEN << >> ELSE Head(chunks) \o ChunksAll(Tail(chunks))

\* what the indicator shows after "Cargando modelo: ": a whole number, or
\* "Infinity" when the division was by a contentLength of 0
Percent(n) == [finite |-> TRUE, value |-> n]

InfinitePercent == [finite |-> FALSE, value |-> 0]

\* loadModelParts is called and runs to its first await: checkModelCache's
\* caches.open in part_000, the first fetch in modelLoader.js.  shown is the
\* percentage on the page and url the bytes behind the last blob URL.
PartsCall(caller, revision, shown, url) ==
    [ pc |-> IF revision = "part_000" THEN "cache" ELSE "fetch1",
      caller |-> caller, part |-> << IdlePart, IdlePart >>, fetches |-> 0,
      shown |-> shown, url |-> url ]

\* checkModelCache with `parts[0] || parts[1]`
checkModelCache_EitherPart(available) ==
    /\ available
    /\ modelCache.model_part1.present \/ modelCache.model_part2.present

\* checkModelCache: both parts or null; null too when the Cache API is missing
\* or fails (available = FALSE)
checkModelCache(available) ==
    /\ available
    /\ modelCache.model_part1.present /\ modelCache.model_part2.present

\* totalProgress of loadModelPartWithProgress, as updateLoadingProgress shows
\* it: Math.round(((partNumber - 1) * 50) + (receivedLength / contentLength) * 100 / 2)
\* (receivedLength is positive: a chunk has been read)
ShownProgress(partNumber, receivedLength, contentLength) ==
    IF contentLength = 0
    THEN InfinitePercent
    ELSE Percent(((partNumber - 1) * 100 * contentLength + 100 * receivedLength
                    + contentLength) \div (2 * contentLength))

\* loadModelParts returns or throws and its caller goes on in the same task:
\* the module's top level defines MODELS and MODEL_URL, or fails with the
\* error; loadModel takes the URL or the fallback and starts its first attempt
CallerResumes(returned, indicator) ==
    IF partsRun.caller = "module"
    THEN /\ moduleState' = [moduleState EXCEPT !.pc = IF returned THEN "ready" ELSE "failed"]
         /\ MODEL_URL' = IF returned THEN "default" ELSE MODEL_URL
         /\ loadingIndicator' = indicator
         /\ UNCHANGED << tfliteModel, loadModelPc >>
         /\ UNCHANGED pageVars
    ELSE /\ loadModel_PartsSettled(returned)
         /\ UNCHANGED moduleState

\* the page is left as it is but for the indicator being displayed
OnlyIndicator ==
    /\ loadingIndicator' = "block"
    /\ UNCHANGED << tfliteModel, MODEL_URL, loadModelPc, moduleState >>
    /\ UNCHANGED pageVars

\* await checkModelCache() settles.  With both parts cached their buffers are
\* joined and the blob URL returned; otherwise 0% is shown and both parts are
\* fetched in parallel.
checkModelCache_settled ==
    /\ partsRun.pc = "cache"
    /\ \E available \in BOOLEAN :
         IF checkModelCache(available)
         THEN /\ partsRun' = [partsRun EXCEPT
                    !.pc = "returned",
                    !.url = modelCache.model_part1.bytes \o modelCache.model_part2.bytes]
              /\ CallerResumes(TRUE, loadingIndicator)
         ELSE /\ partsRun' = [partsRun EXCEPT
                    !.pc = "fetching", !.shown = Percent(0), !.fetches = 2,
                    !.part = << [IdlePart EXCEPT !.pc = "fetch"],
                                [IdlePart EXCEPT !.pc = "fetch"] >>]
              /\ OnlyIndicator
    /\ UNCHANGED << waitForTFLitePc, modelCache >>

\* `await fetch(url)` of loadModelPartWithProgress(url, p) settles.  A response
\* is read whatever its status, with the Content-Length it carries or 0 for
\* none; a rejection makes Promise.all, and with it loadModelParts, throw
\* unless the other part did so already.
fetch_settled(p) ==
    /\ partsRun.pc \in {"fetching", "threw"}
    /\ partsRun.part[p].pc = "fetch"
    /\ \E outcome \in FetchOutcomes, hasContentLength \in BOOLEAN :
         IF outcome = "error"
         THEN /\ partsRun' = [partsRun EXCEPT !.part[p].pc = "failed", !.pc = "threw"]
              /\ IF partsRun.pc = "fetching"
                 THEN CallerResumes(FALSE, loadingIndicator)
                 ELSE UNCHANGED << tfliteModel, MODEL_URL, loadModelPc, moduleState,
                                   loadingIndicator >> /\ UNCHANGED pageVars
         ELSE /\ partsRun' = [partsRun EXCEPT
                    !.part[p] = [ pc |-> "reading", ok |-> outcome = "ok",
                                  body |-> ResponseBody(p, outcome),
                                  chunks |-> << >>, received |-> << >>,
                                  contentLength |-> IF hasContentLength
                                                    THEN Len(ResponseBody(p, outcome))
                                                    ELSE 0 ]]
              /\ UNCHANGED << tfliteModel, MODEL_URL, loadModelPc, moduleState,
                              loadingIndicator >>
              /\ UNCHANGED pageVars
    /\ UNCHANGED << waitForTFLitePc, modelCache >>

\* `await reader.read()` of part p settles with a chunk: it is appended and the
\* progress shown.
reader_read(p) ==
    LET body == partsRun.part[p].body
        chunks == partsRun.part[p].chunks
    IN  /\ partsRun.part[p].pc = "reading"
        /\ ReceivedLength(chunks) < Len(body)
        /\ \E n \in 1..(Len(body) - ReceivedLength(chunks)) :
             LET value == SubSeq(body, ReceivedLength(chunks) + 1,
                                 ReceivedLength(chunks) + n)
             IN  partsRun' = [partsRun EXCEPT
                     !.part[p].chunks = Append(chunks, value),
                     !.shown = ShownProgress(p, ReceivedLength(Append(chunks, value)),
                                             partsRun.part[p].contentLength)]
    /\ OnlyIndicator
    /\ UNCHANGED << waitForTFLitePc, modelCache >>

\* `await reader.read()` of part p settles with done: the part's buffer is
\* returned.  When it is the second of the two, Promise.all resolves and
\* loadModelParts joins the buffers and calls cacheModelParts, which awaits.
reader_done(p) ==
    /\ partsRun.part[p].pc = "reading"
    /\ ReceivedLength(partsRun.part[p].chunks) = Len(partsRun.part[p].body)
    /\ LET buffer == ChunksAll(partsRun.part[p].chunks)
           returned == [partsRun EXCEPT !.part[p].pc = "done",
                                        !.part[p].received = buffer,
                                        !.part[p].chunks = << >>,
                                        !.part[p].contentLength = 0]
       IN  partsRun' =
             IF partsRun.pc = "fetching" /\ partsRun.part[3 - p].pc = "done"
             THEN [returned EXCEPT !.pc = "caching",
                                   !.url = returned.part[1].received
                                             \o returned.part[2].received]
             ELSE returned
    /\ UNCHANGED << tfliteModel, MODEL_URL, loadModelPc, moduleState, loadingIndicator,
                    waitForTFLitePc, modelCache >>
    /\ UNCHANGED pageVars

\* `await cacheModelParts(buffer1, buffer2)` settles: each cache.put stored its
\* buffer or failed (none is made when the Cache API is missing or
\* caches.open fails), and no failure is passed on; then 100% is shown and
\* the blob URL returned.  (The timer that hides the indicator 1000 ms later
\* is left out.)
cacheModelParts_settled ==
    /\ partsRun.pc = "caching"
    /\ \E stored \in SUBSET {1, 2} :
         modelCache' =
           [ model_part1 |-> IF 1 \in stored
                             THEN [present |-> TRUE, bytes |-> partsRun.part[1].received]
                             ELSE modelCache.model_part1,
             model_part2 |-> IF 2 \in stored
                             THEN [present |-> TRUE, bytes |-> partsRun.part[2].received]
                             ELSE modelCache.model_part2 ]
    /\ partsRun' = [partsRun EXCEPT !.pc = "returned", !.shown = Percent(100)]
    /\ CallerResumes(TRUE, "block")
    /\ UNCHANGED waitForTFLitePc

\* leaves everything but partsRun and what the caller changes as it is
PartsThrew ==
    /\ partsRun' = [partsRun EXCEPT !.pc = "threw"]
    /\ CallerResumes(FALSE, loadingIndicator)

\* modelLoader.js: `await fetch(...partaa)` settles and partab is fetched
modelLoader_response1 ==
    /\ partsRun.pc = "fetch1"
    /\ \E outcome \in FetchOutcomes :
         IF outcome = "error"
         THEN PartsThrew
         ELSE /\ partsRun' = [partsRun EXCEPT
                    !.pc = "fetch2", !.fetches = 2,
                    !.part[1] = [ pc |-> "done", ok |-> outcome = "ok",
                                  body |-> ResponseBody(1, outcome),
                                  chunks |-> << >>,
                                  received |-> ResponseBody(1, outcome),
                                  contentLength |-> 0 ]]
              /\ UNCHANGED << tfliteModel, MODEL_URL, loadModelPc, moduleState,
                              loadingIndicator >>
              /\ UNCHANGED pageVars
    /\ UNCHANGED << waitForTFLitePc, modelCache >>

\* modelLoader.js: `await fetch(...partab)` settles; unless both responses are
\* OK it throws, else the two arrayBuffers are joined and the blob URL returned
modelLoader_response2 ==
    /\ partsRun.pc = "fetch2"
    /\ \E outcome \in FetchOutcomes :
         IF outcome = "error" \/ ~partsRun.part[1].ok \/ outcome # "ok"
         THEN PartsThrew
         ELSE /\ partsRun' = [partsRun EXCEPT
                    !.pc = "returned",
                    !.part[2] = [ pc |-> "done", ok |-> TRUE,
                                  body |-> ResponseBody(2, outcome),
                                  chunks |-> << >>,
                                  received |-> ResponseBody(2, outcome),
                                  contentLength |-> 0 ],
                    !.url = partsRun.part[1].received \o ResponseBody(2, outcome)]
              /\ CallerResumes(TRUE, loadingIndicator)
    /\ UNCHANGED << waitForTFLitePc, modelCache >>

\* ------------------------------------------------------------ waitForTFLite
\* waitForTFLite with `attempts > maxAttempts`
GivesUp_OneLate(attempts) == attempts > maxAttempts

\* `if (attempts >= maxAttempts)`
GivesUp(attempts) == attempts >= maxAttempts

\* part_001: loadModel is called and runs to `await checkFileExists(...)`
\* attempt counts the calls of tflite.loadTFLiteModel, fallback those of them
\* made with the fallback URL, depth the calls of loadModel by itself
loadModel_Recursive(depth) ==
    /\ loadModelPc' = [ pc |-> "exists", depth |-> depth,
                        attempt |-> IF depth = 0 THEN 0 ELSE loadModelPc.attempt,
                        fallback |-> IF depth = 0 THEN 0 ELSE loadModelPc.fallback ]
    /\ loadingIndicator' = "block"

\* One run of waitForTFLite: from the DOMContentLoaded listener, then from its
\* 100 ms timer.  With the library there loadModel is called (and runs to its
\* first await) and no timer is set; without it attempts is counted and either
\* the error is reported or the timer set.
waitForTFLite ==
    /\ moduleState.pc = "ready"
    /\ waitForTFLitePc.pc = "polling"
    /\ \E present \in BOOLEAN :
         IF present
         THEN /\ waitForTFLitePc' = [waitForTFLitePc EXCEPT !.pc = "started"]
              /\ IF moduleState.revision = "part_000"
                 THEN /\ loadModel_Start
                      /\ partsRun' = PartsCall("loadModel", "part_000",
                                                partsRun.shown, partsRun.url)
                 ELSE /\ loadModel_Recursive(0)
                      /\ UNCHANGED << tfliteModel, MODEL_URL, partsRun >>
                      /\ UNCHANGED pageVars
         ELSE /\ waitForTFLitePc' =
                   [ pc |-> IF GivesUp(waitForTFLitePc.attempts + 1)
                            THEN "gaveUp" ELSE "polling",
                     attempts |-> waitForTFLitePc.attempts + 1 ]
              /\ UNCHANGED << tfliteModel, MODEL_URL, loadModelPc, loadingIndicator,
                              partsRun >>
              /\ UNCHANGED pageVars
    /\ UNCHANGED << moduleState, modelCache >>

\* ------------------------------------------- loadModel of part_001 (71-123)
\* `await checkFileExists(MODELS.default)` settles; without the file the
\* fallback URL is taken; tflite.loadTFLiteModel(MODEL_URL) is called and raced
\* against the 30 s timeout.
checkFileExists_settled ==
    /\ loadModelPc.pc = "exists"
    /\ \E mainModelExists \in BOOLEAN :
         MODEL_URL' = IF mainModelExists THEN MODEL_URL ELSE "fallback"
    /\ loadModelPc' = [loadModelPc EXCEPT
                         !.pc = "load", !.attempt = @ + 1,
                         !.fallback = IF MODEL_URL' = "fallback" THEN @ + 1 ELSE @]
    /\ UNCHANGED << tfliteModel, loadingIndicator >>
    /\ UNCHANGED pageVars
    /\ UNCHANGED startupVars

\* `await Promise.race(...)` settles: with a model (return true), with a falsy
\* value (the function ends without a return), or by rejecting; the catch then
\* calls loadModel again if MODEL_URL is still the default, and otherwise
\* alerts and returns false.
loadModel_RecursiveRace ==
    /\ loadModelPc.pc = "load"
    /\ \E outcome \in {"model", "falsy", "error"} :
         IF outcome = "model"
         THEN /\ tfliteModel' = "model"
              /\ loadModelPc' = [loadModelPc EXCEPT !.pc = "loaded"]
              /\ UNCHANGED << MODEL_URL, loadingIndicator >>
         ELSE IF outcome = "falsy"
         THEN /\ tfliteModel' = "null"
              /\ loadModelPc' = [loadModelPc EXCEPT !.pc = "undefined"]
              /\ UNCHANGED << MODEL_URL, loadingIndicator >>
         ELSE IF MODEL_URL = "default"
         THEN /\ MODEL_URL' = "fallback"
              /\ loadModel_Recursive(loadModelPc.depth + 1)
              /\ UNCHANGED tfliteModel
         ELSE /\ loadModelPc' = [loadModelPc EXCEPT !.pc = "failed"]
              /\ UNCHANGED << tfliteModel, MODEL_URL, loadingIndicator >>
    /\ UNCHANGED pageVars
    /\ UNCHANGED startupVars

\* ---------------------------------------------------- the start of the page
\* what an earlier visit may have left in the Cache API store
InitialCaches ==
    { [ model_part1 |-> NoEntry, model_part2 |-> NoEntry ],
      [ model_part1 |-> [present |-> TRUE, bytes |-> ModelPartBytes(1)],
        model_part2 |-> NoEntry ],
      [ model_part1 |-> NoEntry,
        model_part2 |-> [present |-> TRUE, bytes |-> ModelPartBytes(2)] ],
      [ model_part1 |-> [present |-> TRUE, bytes |-> ModelPartBytes(1)],
        model_part2 |-> [present |-> TRUE, bytes |-> ModelPartBytes(2)] ] }

\* The module starts evaluating: `default: await loadModelParts()` has called
\* loadModelParts, which waits at its first await; MODEL_URL, declared after
\* MODELS, has no value yet.  The revision is part_000 with its own
\* loadModelParts, or part_001 with that of modelLoader.js.
InitStartup ==
    /\ tfliteModel = "null"
    /\ MODEL_URL = "uninitialised"
    /\ loadModelPc = [pc |-> "idle", attempt |-> 0]
    /\ imagePreview = "complete"
    /\ readers = 0
    /\ currentMesh = NoObject
    /\ scene = {}
    /\ objects = << >>
    /\ geometries = << >>
    /\ materials = << >>
    /\ textures = << >>
    /\ tensors = << >>
    /\ conversions = << >>
    /\ exports = << >>
    /\ downloadBtn = [disabled |-> FALSE]
    /\ loadingIndicator = "none"
    /\ \E revision \in {"part_000", "part_001"} :
         /\ moduleState = [pc |-> "evaluating", revision |-> revision]
         /\ partsRun = PartsCall("module", revision, Percent(0), << >>)
    /\ waitForTFLitePc = [pc |-> "polling", attempts |-> 0]
    /\ modelCache \in InitialCaches

NextStartup ==
    \/ checkModelCache_settled
    \/ \E p \in {1, 2} : fetch_settled(p)
    \/ \E p \in {1, 2} : reader_read(p)
    \/ \E p \in {1, 2} : reader_done(p)
    \/ cacheModelParts_settled
    \/ modelLoader_response1
    \/ modelLoader_response2
    \/ waitForTFLite
    \/ loadModel_Race /\ UNCHANGED startupVars
    \/ loadModel_Backoff /\ UNCHANGED startupVars
    \/ checkFileExists_settled
    \/ loadModel_RecursiveRace

SpecStartup == InitStartup /\ [][NextStartup]_vars

\* ================================================================ claims
\* the resources of a mesh object
GeometryOf(o) == geometries[objects[o].geometry]
MaterialOf(o) == materials[objects[o].material]

\* an export whose clone exists and whose serializer result or cleanup is pending
InFlight(e) == exports[e].pc \in {"awaiting", "timer"}

\* C1: preparing a surface for export works on a clone and leaves the live
\* surface untouched: in the step in which downloadGLB creates the export clone,
\* currentMesh, its placement, its geometry (vertex positions) and its material
\* stay exactly as they were.
C1_ExportLeavesLiveSurface ==
    [][ ( /\ Len(exports') = Len(exports) + 1
          /\ exports'[Len(exports')].clone # NoObject )
        => /\ currentMesh' = currentMesh
           /\ objects'[currentMesh] = objects[currentMesh]
           /\ geometries'[objects[currentMesh].geometry] = GeometryOf(currentMesh)
           /\ materials'[objects[currentMesh].material] = MaterialOf(currentMesh) ]_vars

\* C2: once the export clone exists, its geometry and material are released on
\* every path out of the export: no export that has ended (serializer failure,
\* exception, or success with its cleanup done) leaves its clone unreleased.
C2_CloneReleasedOnEveryPath ==
    \A e \in DOMAIN exports :
        (exports[e].clone # NoObject /\ exports[e].pc \in {"failed", "cleaned"})
            => exports[e].released

\* C3: when the serializer's failure callback fires, no output is produced, the
\* error is reported, and the live surface is still currentMesh, still in the
\* scene, with the vertex positions it had when the export started.
C3_FailureLeavesLiveSurface ==
    [][ \A e \in DOMAIN exports :
          (exports[e].pc = "awaiting" /\ exports'[e].pc = "failed")
          => /\ ~exports'[e].blob
             /\ exports'[e].error # ""
             /\ currentMesh' = exports[e].snapshot.mesh
             /\ exports[e].snapshot.inScene => currentMesh' \in scene'
             /\ geometries'[objects'[currentMesh'].geometry].position
                    = exports[e].snapshot.position ]_vars

\* C4: if a conversion fails (estimateDepth or createMeshFromDepthMap throws or
\* rejects), the displayed surface is left untouched and renderable: currentMesh
\* is unchanged by the failure and, if there is one, it is in the scene with
\* its geometry and material not disposed.
C4_FailedConversionKeepsSurface ==
    [][ ( \/ \E i \in DOMAIN conversions :
                /\ conversions[i].pc = "array"
                /\ conversions'[i].pc = "meshError"
          \/ /\ Len(conversions') = Len(conversions) + 1
             /\ conversions'[Len(conversions')].pc = "depthError" )
        => /\ currentMesh' = currentMesh
           /\ currentMesh' # NoObject
                => /\ currentMesh' \in scene'
                   /\ geometries'[objects'[currentMesh'].geometry].disposed = 0
                   /\ materials'[objects'[currentMesh'].material].disposed = 0 ]_vars

\* C5: a conversion and an export never overlap on the same surface: while an
\* export is in flight, no step of a generate or adjust handler removes the
\* exported surface from the scene, replaces it as currentMesh, or disposes the
\* geometry or material the export clone uses.
C5_NoConversionDuringExport ==
    [][ \A e \in DOMAIN exports :
          (InFlight(e) /\ conversions' # conversions)
          => /\ (exports[e].source \in scene) => (exports[e].source \in scene')
             /\ (currentMesh = exports[e].source) => (currentMesh' = currentMesh)
             /\ geometries'[objects[exports[e].clone].geometry].disposed
                    = GeometryOf(exports[e].clone).disposed
             /\ materials'[objects[exports[e].clone].material].disposed
                    = MaterialOf(exports[e].clone).disposed ]_vars

\* a surface that has left the scene with its geometry, material and texture
\* released (in the state after the step)
ReleasedAfter(o) ==
    /\ o \notin scene'
    /\ geometries'[objects[o].geometry].disposed > 0
    /\ materials'[objects[o].material].disposed > 0
    /\ textures'[MaterialOf(o).map].disposed > 0

\* C6: whenever a surface is replaced, the previous surface is out of the scene
\* and its geometry, texture and material are released before the new surface
\* is built: this holds of the current surface when a handler goes on to
\* createMeshFromDepthMap, and of the surface a handler replaces as currentMesh.
C6_ReleasedBeforeRebuild ==
    [][ /\ ( /\ Len(conversions') = Len(conversions) + 1
             /\ conversions'[Len(conversions')].pc = "array"
             /\ currentMesh # NoObject )
           => ReleasedAfter(currentMesh)
        /\ (currentMesh' # currentMesh /\ currentMesh # NoObject)
           => ReleasedAfter(currentMesh) ]_vars

\* C7: at most one export is in flight at any time: at most one downloadGLB is
\* waiting for the serializer, and while one is, the download button is disabled.
C7_OneExportInFlight ==
    /\ Cardinality({ e \in DOMAIN exports : exports[e].pc = "awaiting" }) <= 1
    /\ (\E e \in DOMAIN exports : exports[e].pc = "awaiting") => downloadBtn.disabled

\* C7 witness: a second export is waiting for the serializer after a first one
\* has ended.
C7_Witness ==
    /\ Len(exports) = 2
    /\ exports[1].pc \in {"timer", "cleaned", "failed"}
    /\ exports[2].pc = "awaiting"
    /\ downloadBtn.disabled

\* C8: while no inference model is loaded no surface is built: every handler
\* run so far ended with estimateDepth's not-ready report, there is no tensor
\* and no mesh, and currentMesh and the scene are as they were at the start.
C8_NoSurfaceWithoutModel ==
    tfliteModel = "null"
        => /\ \A i \in DOMAIN conversions : conversions[i].pc = "notReady"
           /\ tensors = << >>
           /\ objects = << >> /\ geometries = << >>
           /\ materials = << >> /\ textures = << >>
           /\ currentMesh = NoObject
           /\ scene = {}

\* C8 witness: the generate handler has run without a model
C8_Witness ==
    /\ tfliteModel = "null"
    /\ \E i \in DOMAIN conversions :
         conversions[i].kind = "generate" /\ conversions[i].pc = "notReady"

\* the three ways a surface fails export validation, read off the surface
LacksGeometry(o) == objects[o].geometry = NoObject
LacksVertices(o) ==
    ~LacksGeometry(o) /\ (~GeometryOf(o).hasPosition \/ Len(GeometryOf(o).position) = 0)
LacksTexture(o) ==
    objects[o].material = NoObject \/ MaterialOf(o).map = NoObject

\* C9: export validation reports three distinct failures in a fixed order:
\* no geometry gives the missing-geometry error; geometry without vertices the
\* empty-mesh error; geometry and vertices without a texture the missing-texture
\* error, whatever else the surface lacks.
C9_ValidationOrder ==
    \A e \in DOMAIN exports :
      LET o == exports[e].source IN
      o # NoObject =>
        /\ LacksGeometry(o) => exports[e].error = "MissingGeometry"
        /\ LacksVertices(o) => exports[e].error = "EmptyMesh"
        /\ (~LacksGeometry(o) /\ ~LacksVertices(o) /\ LacksTexture(o))
              => exports[e].error = "MissingTexture"

\* C9 witness: a surface with geometry and vertices but no texture was refused
\* with the missing-texture error
C9_Witness ==
    \E e \in DOMAIN exports :
      /\ exports[e].source # NoObject
      /\ ~LacksGeometry(exports[e].source)
      /\ ~LacksVertices(exports[e].source)
      /\ LacksTexture(exports[e].source)
      /\ exports[e].error = "MissingTexture"

\* C10: when there is no current surface or it fails validation, downloadGLB
\* aborts before anything is allocated or changed: the run creates no clone and
\* no export scene, never calls the serializer, and leaves currentMesh, the
\* scene and every mesh, geometry, material and texture as they were.
C10_ValidationFailureChangesNothing ==
    [][ ( /\ Len(exports') = Len(exports) + 1
          /\ \/ currentMesh = NoObject
             \/ LacksGeometry(currentMesh)
             \/ LacksVertices(currentMesh)
             \/ LacksTexture(currentMesh) )
        => /\ exports'[Len(exports')].pc = "rejected"
           /\ exports'[Len(exports')].clone = NoObject
           /\ exports'[Len(exports')].exportScene = {}
           /\ ~exports'[Len(exports')].parsed
           /\ UNCHANGED << currentMesh, scene, objects, geometries, materials,
                           textures >> ]_vars

\* C10 witness: a surface in the scene was refused for having no vertices,
\* and nothing was built for it
C10_Witness ==
    \E e \in DOMAIN exports :
      /\ exports[e].pc = "rejected"
      /\ exports[e].error = "EmptyMesh"
      /\ exports[e].source \in scene
      /\ exports[e].clone = NoObject
      /\ Len(objects) = 1

\* ----------------------------------------------- the surface of a conversion
\* conversion i leaves createMeshFromDepthMap with its mesh in this step
Built(i) ==
    /\ i \in DOMAIN conversions
    /\ conversions[i].pc = "array"
    /\ conversions'[i].pc = "done"

FieldOf(i) == tensors[conversions[i].tensor].data
FieldHeight(i) == tensors[conversions[i].tensor].shape[1]
FieldWidth(i) == tensors[conversions[i].tensor].shape[2]
IsConstantField(i, d) ==
    \A y \in 1..FieldHeight(i) : \A x \in 1..FieldWidth(i) : FieldOf(i)[y][x] = d

\* (1 - d) * 100 * depthScale + baseHeight * 20 in units of 1/ZUnit, for the
\* depth d = dn / DepthDen and the two parameters read as percentages
LawHeight(dn, s) ==
    ((DepthDen - dn) * 100 * s.depthScale * ZUnit) \div (DepthDen * 100)
      + (s.baseHeight * 20 * ZUnit) \div 100

\* C11: a depth field of width >= 2 and height >= 2 gives a surface of exactly
\* width * height vertices and (width-1) * (height-1) * 2 triangles, whatever
\* the depth values and the settings are.
C11_VertexAndTriangleCount ==
    [][ \A i \in DOMAIN conversions :
          (Built(i) /\ FieldWidth(i) >= 2 /\ FieldHeight(i) >= 2)
          => LET g == geometries'[objects'[conversions'[i].mesh].geometry]
             IN  /\ Len(g.position) = FieldWidth(i) * FieldHeight(i)
                 /\ g.index = 3 * ((FieldWidth(i) - 1) * (FieldHeight(i) - 1) * 2) ]_vars

\* C11 witness: a 3-wide, 2-high field was built into 6 vertices and 4 triangles
C11_Witness ==
    \E i \in DOMAIN conversions :
      /\ conversions[i].pc = "done"
      /\ FieldWidth(i) = 3 /\ FieldHeight(i) = 2
      /\ Len(GeometryOf(conversions[i].mesh).position) = 6
      /\ GeometryOf(conversions[i].mesh).index = 12

\* C12: for a constant depth field of value d every vertex of the surface,
\* as built and before any recentring, has the height
\* (1 - d) * 100 * depthScale + baseHeight * 20, wherever it is in the grid.
C12_HeightInversionLaw ==
    [][ \A i \in DOMAIN conversions : \A d \in 0..DepthDen :
          (Built(i) /\ IsConstantField(i, d) /\ ~conversions'[i].settings.autoCenter)
          => LET g == geometries'[objects'[conversions'[i].mesh].geometry]
             IN  \A k \in DOMAIN g.position :
                   g.position[k] = LawHeight(d, conversions'[i].settings) ]_vars

\* C12 witness: a constant field of a depth strictly between 0 and 1 was built
\* without recentring, with a base height, and has not been exported
C12_Witness ==
    \E i \in DOMAIN conversions :
      /\ conversions[i].pc = "done"
      /\ IsConstantField(i, 1)
      /\ ~conversions[i].settings.autoCenter
      /\ conversions[i].settings.baseHeight = 50
      /\ conversions[i].settings.depthScale = 200
      /\ exports = << >>
      /\ GeometryOf(conversions[i].mesh).position[1]
           = (DepthDen - 1) * 2000 + 10 * ZUnit

\* C13: vertex i takes its height from depth[floor(i / width)][i mod width]:
\* the heights the loop assigns are the law's values at those cells (where
\* autoCenter then recentres a finite surface, shifted by one common offset),
\* and the field
\* [[0,1],[1,0]] with depthScale 1.0 and baseHeight 0 gives the heights
\* [100, 0, 0, 100] and two triangles.
C13_RowMajorHeights ==
    [][ \A i \in DOMAIN conversions :
          Built(i)
          => LET g == geometries'[objects'[conversions'[i].mesh].geometry]
                 s == conversions'[i].settings
                 w == FieldWidth(i)
                 law(k) == LawHeight(FieldOf(i)[((k - 1) \div w) + 1][((k - 1) % w) + 1], s)
             IN  /\ (s.autoCenter /\ g.nan = "none")
                    => \A k, j \in DOMAIN g.position :
                         g.position[k] - g.position[j] = law(k) - law(j)
                 /\ ~s.autoCenter => \A k \in DOMAIN g.position : g.position[k] = law(k)
                 /\ ( /\ FieldOf(i) = << <<0, DepthDen>>, <<DepthDen, 0>> >>
                      /\ s.depthScale = 100 /\ s.baseHeight = 0 /\ ~s.autoCenter )
                    => /\ g.position = <<100 * ZUnit, 0, 0, 100 * ZUnit>>
                       /\ g.index \div 3 = 2 ]_vars

\* C13 witness: the field [[0, 1/DepthDen, 1], [1, 0, 1/DepthDen]], which is not
\* its own transpose, was built at depthScale 1.0 without recentring: the
\* second vertex is one step below the top and the fourth is at the base
C13_Witness ==
    \E i \in DOMAIN conversions :
      /\ conversions[i].pc = "done"
      /\ FieldOf(i) = << <<0, 1, DepthDen>>, <<DepthDen, 0, 1>> >>
      /\ conversions[i].settings.depthScale = 100
      /\ conversions[i].settings.baseHeight = 0
      /\ ~conversions[i].settings.autoCenter
      /\ exports = << >>
      /\ GeometryOf(conversions[i].mesh).position[2] = (DepthDen - 1) * 1000
      /\ GeometryOf(conversions[i].mesh).position[4] = 0

\* ------------------------------------------------------- the export's steps
\* this step is a downloadGLB that got as far as calling the serializer
Serialized ==
    /\ Len(exports') = Len(exports) + 1
    /\ exports'[Len(exports')].pc = "awaiting"

\* C14: the metadata block given to the serializer for a live surface of V
\* vertices and T triangles has vertices = V and faces = T (the index count
\* divided by 3, which is 0 where there are no indices); for the surface of a
\* width x height field these are width * height and (width-1)*(height-1)*2.
C14_MetadataRoundTrip ==
    [][ Serialized
        => LET m == exports'[Len(exports')].metadata
               g == GeometryOf(currentMesh)
           IN  /\ m.vertices = Len(g.position)
               /\ m.faces * 3 = g.index
               /\ \A i \in DOMAIN conversions :
                    (conversions[i].pc = "done" /\ conversions[i].mesh = currentMesh)
                    => /\ m.vertices = FieldWidth(i) * FieldHeight(i)
                       /\ (FieldWidth(i) >= 2 /\ FieldHeight(i) >= 2)
                          => m.faces = (FieldWidth(i) - 1) * (FieldHeight(i) - 1) * 2 ]_vars

\* C14 witness: the surface of a 2-wide, 3-high field went to the serializer
\* with 6 vertices and 4 faces in its metadata
C14_Witness ==
    \E e \in DOMAIN exports : \E i \in DOMAIN conversions :
      /\ exports[e].pc = "awaiting"
      /\ conversions[i].pc = "done"
      /\ conversions[i].mesh = exports[e].source
      /\ FieldWidth(i) = 2 /\ FieldHeight(i) = 3
      /\ exports[e].metadata = [vertices |-> 6, faces |-> 4]

\* this step is a downloadGLB that went through optimizeModelForExport
Optimized ==
    /\ Len(exports') = Len(exports) + 1
    /\ exports'[Len(exports')].clone # NoObject

\* the bounding box of the heights is centred at the origin
CentredAtOrigin(geometry) ==
    /\ geometry.nan = "none"
    /\ \/ geometry.position = << >>
       \/ SetMin(Range(geometry.position)) + SetMax(Range(geometry.position)) = 0

\* geometry g went through geometry.center() before: when it was built with
\* autoCenter, or in an earlier export
CentredBefore(g) ==
    \/ \E i \in DOMAIN conversions :
         /\ conversions[i].pc = "done"
         /\ objects[conversions[i].mesh].geometry = g
         /\ conversions[i].settings.autoCenter
    \/ \E e \in DOMAIN exports :
         /\ exports[e].clone # NoObject
         /\ objects[exports[e].clone].geometry = g

\* C15: geometry.center() is idempotent: after it the bounding box is centred
\* at the origin, and applied to a geometry that was centred before (built
\* with autoCenter, or exported before) or applied once more, it leaves the
\* box centred at the origin and every vertex where it was.
C15_RecentringIdempotent ==
    [][ Optimized
        => LET g == objects[currentMesh].geometry
               once == geometries'[g]
               twice == GeometryCenter(once)
           IN  /\ CentredAtOrigin(once)
               /\ CentredAtOrigin(twice)
               /\ twice.position = once.position
               /\ CentredBefore(g)
                  => /\ CentredAtOrigin(geometries[g])
                     /\ once.position = geometries[g].position ]_vars

\* C15 witness: a surface with two different heights, built with autoCenter,
\* has been exported, so that its geometry was centred twice
C15_Witness ==
    \E e \in DOMAIN exports : \E i \in DOMAIN conversions :
      /\ exports[e].clone # NoObject
      /\ conversions[i].pc = "done"
      /\ conversions[i].mesh = exports[e].source
      /\ conversions[i].settings.autoCenter
      /\ GeometryOf(exports[e].clone).position[1] > 0
      /\ GeometryOf(exports[e].clone).position[2] < 0

\* C16: the export always centres: the clone handed to the serializer has its
\* bounding box centred at the origin and its position at (0, 0, 0), whether
\* the live surface was built with autoCenter on or off.
C16_ExportAlwaysCentres ==
    [][ Optimized
        => LET clone == exports'[Len(exports')].clone
           IN  /\ objects'[clone].position = <<0, 0, 0>>
               /\ CentredAtOrigin(geometries'[objects'[clone].geometry]) ]_vars

\* C16 witness: a surface built with autoCenter off, all of whose heights were
\* at or above 0, is at the serializer with heights on both sides of 0
C16_Witness ==
    \E e \in DOMAIN exports : \E i \in DOMAIN conversions :
      /\ exports[e].pc = "awaiting"
      /\ conversions[i].pc = "done"
      /\ conversions[i].mesh = exports[e].source
      /\ ~conversions[i].settings.autoCenter
      /\ objects[exports[e].clone].position = <<0, 0, 0>>
      /\ SetMin(Range(GeometryOf(exports[e].clone).position)) < 0
      /\ SetMax(Range(GeometryOf(exports[e].clone).position)) > 0

\* C17: createMeshFromDepthMap given a depth field whose width or height is
\* less than 2 fails and returns no surface: no conversion over such a field
\* ends with a mesh, and nothing is built for it.
C17_DegenerateFieldRejected ==
    \A i \in DOMAIN conversions :
      (FieldWidth(i) < 2 \/ FieldHeight(i) < 2)
      => /\ conversions[i].pc # "done"
         /\ objects = << >>
         /\ geometries = << >>
         /\ currentMesh = NoObject

\* C18: every depth tensor estimateDepth returned is used by exactly one
\* conversion, and once that conversion is over, with a surface or with a
\* failure of createMeshFromDepthMap, it has been disposed exactly once.
C18_TensorReleasedOnEveryPath ==
    /\ \A t \in DOMAIN tensors :
         Cardinality({ i \in DOMAIN conversions : conversions[i].tensor = t }) = 1
    /\ \A i \in DOMAIN conversions :
         conversions[i].pc \in {"done", "meshError"}
         => tensors[conversions[i].tensor].disposed = 1

\* the heights of the surface of conversion i, from its field and settings s
\* alone: the law at each cell, recentred when autoCenter is on
LawPositions(i, s) ==
    LET w == FieldWidth(i)
        raw == [ k \in 1..(w * FieldHeight(i)) |->
                   LawHeight(FieldOf(i)[((k - 1) \div w) + 1][((k - 1) % w) + 1], s) ]
        c == (SetMin(Range(raw)) + SetMax(Range(raw))) \div 2
    IN  IF s.autoCenter THEN [ k \in DOMAIN raw |-> raw[k] - c ] ELSE raw

Quiescent ==
    /\ readers = 0
    /\ imagePreview # "loading"
    /\ \A i \in DOMAIN conversions : conversions[i].pc # "array"

\* C20: once every conversion that was started has finished, those that
\* overlapped included, the scene holds exactly one surface mesh and it is
\* currentMesh.
C20_OneSurfaceAfterConversions ==
    ( /\ Quiescent
      /\ conversions # << >>
      /\ \A i \in DOMAIN conversions : conversions[i].pc = "done" )
    => scene = {currentMesh}

\* C21: wherever another handler can start (every state: an action runs from
\* one await to the next), currentMesh is null or a mesh that is in the scene
\* and whose geometry and material are not disposed, and no geometry has been
\* disposed twice.
C21_CurrentMeshLiveAtEveryAwait ==
    /\ currentMesh # NoObject
       => /\ currentMesh \in scene
          /\ GeometryOf(currentMesh).disposed = 0
          /\ MaterialOf(currentMesh).disposed = 0
    /\ \A g \in DOMAIN geometries : geometries[g].disposed <= 1

\* C22: loadModel calls tflite.loadTFLiteModel at most maxRetries = 3 times, each
\* attempt being one more call; it returns true (pc "loaded") at the first
\* attempt that yields a model and false (pc "failed") only from the third
\* attempt, with tfliteModel holding no model; after it returned nothing more
\* happens, and a wait follows a failed attempt only before the third.
C22_AtMostThreeAttempts ==
    [][ /\ loadModelPc'.attempt <= 3
        /\ (loadModelPc'.pc = "race" /\ loadModelPc' # loadModelPc)
           => loadModelPc'.attempt = loadModelPc.attempt + 1
        /\ (loadModelPc.pc = "race" /\ tfliteModel' = "model")
           => loadModelPc'.pc = "loaded"
        /\ loadModelPc'.pc = "loaded" => tfliteModel' = "model"
        /\ (loadModelPc'.pc = "failed" /\ loadModelPc.pc # "failed")
           => loadModelPc = [pc |-> "race", attempt |-> 3]
        /\ loadModelPc'.pc = "failed" => tfliteModel' # "model"
        /\ loadModelPc'.pc = "backoff" => loadModelPc'.attempt < 3
        /\ loadModelPc.pc \in {"loaded", "failed"}
           => loadModelPc' = loadModelPc /\ tfliteModel' = tfliteModel ]_vars

\* C22 witness: loadModel has returned false and a conversion was then refused
\* for want of a model
C22_Witness ==
    /\ loadModelPc.pc = "failed"
    /\ tfliteModel = "null"
    /\ \E i \in DOMAIN conversions : conversions[i].pc = "notReady"

\* run e of downloadGLB returns in this step: in its catch before the
\* serializer was called, or when the serializer has called back
Returns(e) ==
    \/ /\ e = Len(exports) + 1
       /\ Len(exports') = e
       /\ exports'[e].pc \in {"rejected", "failed"}
    \/ /\ e \in DOMAIN exports
       /\ exports[e].pc = "awaiting"
       /\ exports'[e].pc \in {"timer", "failed"}

\* C28: every run of downloadGLB that returns (no surface, validation error,
\* failure while preparing, serializer failure, success) leaves the download
\* button enabled and the loading indicator hidden; the button is disabled
\* only while a run waits for the serializer.
C28_TriggerRestoredOnEveryPath ==
    [][ /\ \A e \in 1..(Len(exports) + 1) :
             Returns(e) => /\ ~downloadBtn'.disabled
                           /\ loadingIndicator' = "none"
        /\ downloadBtn'.disabled
           => \E e \in DOMAIN exports' : exports'[e].pc = "awaiting" ]_vars

\* C28 witness: a run failed in the serializer, after the button had been
\* disabled, and the button is enabled again with the indicator hidden
C28_Witness ==
    /\ \E e \in DOMAIN exports :
         /\ exports[e].pc = "failed"
         /\ exports[e].error = "ExportSerialization"
    /\ ~downloadBtn.disabled
    /\ loadingIndicator = "none"

\* C27: waitForTFLite checks for the library at most 50 times; loadModel is
\* started only by a check that finds the library, after which (and after
\* giving up) no check runs again, so it is started at most once; the 50th
\* check that finds no library reports the error and sets no timer, and the
\* error is reported by no other check.
C27_PollingBounded ==
    [][ /\ waitForTFLitePc'.attempts <= 50
        /\ (loadModelPc.pc = "idle" /\ loadModelPc'.pc # "idle")
           => /\ waitForTFLitePc.pc = "polling"
              /\ waitForTFLitePc'.pc = "started"
        /\ waitForTFLitePc.pc \in {"started", "gaveUp"}
           => waitForTFLitePc' = waitForTFLitePc
        /\ waitForTFLitePc.pc = "started" => loadModelPc'.pc # "idle"
        /\ (waitForTFLitePc.attempts = 49 /\ waitForTFLitePc'.attempts = 50)
           => /\ waitForTFLitePc'.pc = "gaveUp"
              /\ loadModelPc'.pc = "idle"
        /\ waitForTFLitePc'.pc = "gaveUp" => waitForTFLitePc'.attempts = 50 ]_vars

\* C27 witness: the library never appeared; 50 checks were made, the error was
\* reported and loadModel never started
C27_Witness ==
    /\ waitForTFLitePc = [pc |-> "gaveUp", attempts |-> 50]
    /\ loadModelPc.pc = "idle"
    /\ moduleState.pc = "ready"

\* C26: the loadModel of part_001 calls itself at most once and calls
\* tflite.loadTFLiteModel with the fallback URL at most once; once started it
\* is waiting for the existence check or for the load, or has returned true
\* with a model in tfliteModel, or has returned false after the alert; it
\* calls itself only with MODEL_URL on the fallback, MODEL_URL never leaves
\* the fallback, and nothing happens after it returned.
C26_RecursiveLoadModelEnds ==
    [][ (moduleState.revision = "part_001" /\ loadModelPc'.pc # "idle")
        => /\ loadModelPc'.depth <= 1
           /\ loadModelPc'.fallback <= 1
           /\ loadModelPc'.pc \in {"exists", "load", "loaded", "failed"}
           /\ loadModelPc'.pc = "loaded" => tfliteModel' = "model"
           /\ loadModelPc'.pc = "failed" => tfliteModel' # "model"
           /\ loadModelPc'.depth = 1 => MODEL_URL' = "fallback"
           /\ MODEL_URL = "fallback" => MODEL_URL' = "fallback"
           /\ loadModelPc.pc \in {"loaded", "failed"}
              => loadModelPc' = loadModelPc /\ tfliteModel' = tfliteModel ]_vars

\* C23: wherever loadModelParts was called from (the initialisation of
\* MODELS.default or loadModel), once it has thrown MODEL_URL is the fallback
\* URL and the application goes on to load a model: the module is not
\* abandoned, and a loadModel that made the call is at or past its first
\* load attempt.
C23_FallbackAfterPartsFailure ==
    partsRun.pc = "threw"
    => /\ MODEL_URL = "fallback"
       /\ moduleState.pc # "failed"
       /\ partsRun.caller = "loadModel"
          => loadModelPc.pc \in {"race", "backoff", "loaded", "failed"}

\* the response for part p has arrived and is not OK
NotOkResponse(p) ==
    /\ partsRun.part[p].pc \notin {"idle", "fetch", "failed"}
    /\ ~partsRun.part[p].ok

\* C24: once the response for either part is not OK, loadModelParts is still
\* waiting for a response or a chunk, or has thrown: it never goes on to
\* cache or to return a URL, and has thrown when both parts are through; and
\* the cache only ever holds the bytes of the model's parts.
C24_NotOkResponseThrows ==
    /\ (NotOkResponse(1) \/ NotOkResponse(2))
       => /\ partsRun.pc \in {"fetching", "fetch2", "threw"}
          /\ (partsRun.part[1].pc = "done" /\ partsRun.part[2].pc = "done")
             => partsRun.pc = "threw"
    /\ modelCache.model_part1.present
       => modelCache.model_part1.bytes = ModelPartBytes(1)
    /\ modelCache.model_part2.present
       => modelCache.model_part2.bytes = ModelPartBytes(2)

\* the bytes of the two cached responses, part 1 first
CachedModel(cache) == cache.model_part1.bytes \o cache.model_part2.bytes

\* C25: (1) a network load yields the bytes of the response for partaa followed
\* by those of the response for partab, whatever the chunks they came in, its
\* length being the sum of both; (2) cacheModelParts leaves each entry as it
\* was or holding that part's buffer, so that with both stored the cache
\* holds the model just built, and nothing else writes the cache; (3) a call
\* that returns from the cache found both parts there, made no fetch and
\* yields the cached bytes, part 1 first; (4) with the cache readable and both
\* parts in it the call does return from the cache, and with only one part it
\* goes to the network.
C25_CacheRoundTrip ==
    [][ /\ partsRun'.pc \in {"caching", "returned"} /\ partsRun'.fetches = 2
           => /\ partsRun'.url = partsRun'.part[1].body \o partsRun'.part[2].body
              /\ Len(partsRun'.url)
                   = Len(partsRun'.part[1].body) + Len(partsRun'.part[2].body)
        /\ modelCache' # modelCache => partsRun.pc = "caching"
        /\ partsRun.pc = "caching"
           => /\ modelCache'.model_part1
                   \in {modelCache.model_part1,
                        [present |-> TRUE, bytes |-> partsRun.part[1].received]}
              /\ modelCache'.model_part2
                   \in {modelCache.model_part2,
                        [present |-> TRUE, bytes |-> partsRun.part[2].received]}
              /\ partsRun'.url = partsRun.url
        /\ (partsRun.pc = "cache" /\ partsRun'.pc = "returned")
           => /\ modelCache.model_part1.present /\ modelCache.model_part2.present
              /\ partsRun'.fetches = 0
              /\ partsRun'.url = CachedModel(modelCache)
        /\ (partsRun.pc = "cache" /\ partsRun'.pc # "cache"
              /\ ~(modelCache.model_part1.present /\ modelCache.model_part2.present))
           => partsRun'.pc = "fetching" /\ partsRun'.fetches = 2 ]_vars

\* C25 witness: the call made by the module loaded both parts from the
\* network (100% was shown) and the call made by loadModel has returned the
\* same bytes from the cache without a fetch
C25_Witness ==
    /\ partsRun.caller = "loadModel"
    /\ partsRun.pc = "returned"
    /\ partsRun.fetches = 0
    /\ partsRun.shown = Percent(100)
    /\ partsRun.url = ModelPartBytes(1) \o ModelPartBytes(2)
    /\ partsRun.url = CachedModel(modelCache)

\* C29: while loadModelParts loads from the network (from the 0% it shows
\* before the fetches to the 100% after caching), every step leaves on the
\* indicator a whole percentage between 0 and 100 that is not below the one
\* shown before, however the chunk reads of the two parts interleave.
C29_ProgressMonotoneWithinRange ==
    [][ partsRun.pc \in {"fetching", "caching"}
        => /\ partsRun'.shown.finite
           /\ partsRun'.shown.value \in 0..100
           /\ partsRun'.shown.value >= partsRun.shown.value ]_vars

====
